---- MODULE Spec2Model ----
(***************************************************************************)
(* Japanese licence-plate OCR service (park-app).                          *)
(*                                                                         *)
(* Three server variants are modelled side by side:                        *)
(*   "app"    src/backend/app.py         (PaddleOCR, full region catalog)  *)
(*   "ocr"    src/api/ocr.py             (PaddleOCR, short catalog)        *)
(*   "simple" src/backend/simple_app.py  (Tesseract, parse_simple_plate)   *)
(*                                                                         *)
(* A text is a sequence of Unicode code points, so that the character      *)
(* classes of the regular expressions (\d, \s, [あ-ん], [-−ー]) are the    *)
(* ones Python's re module uses on str patterns.                           *)
(***************************************************************************)
EXTENDS Integers, Sequences, FiniteSets, TLC

VARIABLES
    text,          \* parser call: the text handed to the parser
    parser,        \* parser call: which parser returned ("none" before the call)
    result,        \* parser call: the record returned
    lines,         \* normalizer call: result[0] of the OCR engine, <<text, confidence>> pairs
    extractor,     \* normalizer call: which extract_text_from_paddle_result returned
    final_text,    \* normalizer call: the string returned
    variant,       \* server: which of the three variants is running
    available,     \* server: PADDLE_AVAILABLE / TESSERACT_AVAILABLE, set at import
    pc,            \* handler: position inside the /api/ocr handler
    request,       \* handler: the request being served
    raised,        \* handler: the pipeline steps that failed while serving it
    ocr_result,    \* handler: what the OCR engine returned
    detected_text, \* handler: local detected_text
    plate_info,    \* handler: local plate_info
    response       \* handler: the response returned

parserVars  == << text, parser, result >>
normVars    == << lines, extractor, final_text >>
handlerVars == << variant, available, pc, request, raised, ocr_result,
                  detected_text, plate_info, response >>

vars == << parserVars, normVars, handlerVars >>

-----------------------------------------------------------------------------
(* Characters *)

SPACE    == 32       \* ' '
LF       == 10       \* '\n'
CR       == 13       \* '\r'
HYPHEN   == 45       \* '-'  ASCII hyphen-minus
MINUS    == 8722     \* '−'  U+2212
CHOON    == 12540    \* 'ー' U+30FC
HIRA_A   == 12354    \* 'あ' U+3042
HIRA_N   == 12435    \* 'ん' U+3093

\* Unicode decimal digits (category Nd): what \d matches in a str pattern.
DigitRanges ==
    { <<48, 57>>, <<1632, 1641>>, <<1776, 1785>>, <<1984, 1993>>, <<2406, 2415>>,
      <<2534, 2543>>, <<2662, 2671>>, <<2790, 2799>>, <<2918, 2927>>, <<3046, 3055>>,
      <<3174, 3183>>, <<3302, 3311>>, <<3430, 3439>>, <<3558, 3567>>, <<3664, 3673>>,
      <<3792, 3801>>, <<3872, 3881>>, <<4160, 4169>>, <<4240, 4249>>, <<6112, 6121>>,
      <<6160, 6169>>, <<6470, 6479>>, <<6608, 6617>>, <<6784, 6793>>, <<6800, 6809>>,
      <<6992, 7001>>, <<7088, 7097>>, <<7232, 7241>>, <<7248, 7257>>, <<42528, 42537>>,
      <<43216, 43225>>, <<43264, 43273>>, <<43472, 43481>>, <<43504, 43513>>, <<43600, 43609>>,
      <<44016, 44025>>, <<65296, 65305>>, <<66720, 66729>>, <<68912, 68921>>, <<69734, 69743>>,
      <<69872, 69881>>, <<69942, 69951>>, <<70096, 70105>>, <<70384, 70393>>, <<70736, 70745>>,
      <<70864, 70873>>, <<71248, 71257>>, <<71360, 71369>>, <<71472, 71481>>, <<71904, 71913>>,
      <<72016, 72025>>, <<72784, 72793>>, <<73040, 73049>>, <<73120, 73129>>, <<92768, 92777>>,
      <<92864, 92873>>, <<93008, 93017>>, <<120782, 120831>>, <<123200, 123209>>, <<123632, 123641>>,
      <<125264, 125273>>, <<130032, 130041>> }

IsDigit(c) == \E r \in DigitRanges : r[1] <= c /\ c <= r[2]

\* Unicode whitespace: what \s, str.split() and str.strip() treat as space.
SpaceRanges ==
    { <<9, 13>>, <<28, 32>>, <<133, 133>>, <<160, 160>>, <<5760, 5760>>,
      <<8192, 8202>>, <<8232, 8233>>, <<8239, 8239>>, <<8287, 8287>>,
      <<12288, 12288>> }

IsSpace(c) == \E r \in SpaceRanges : r[1] <= c /\ c <= r[2]

\* ocr.py's explicit hiragana list (46 basic kana, no voiced or small kana).
hiragana_list ==
    { 12354, 12356, 12358, 12360, 12362, 12363, 12365, 12367, 12369, 12371,
      12373, 12375, 12377, 12379, 12381, 12383, 12385, 12388, 12390, 12392,
      12394, 12395, 12396, 12397, 12398, 12399, 12402, 12405, 12408, 12411,
      12414, 12415, 12416, 12417, 12418, 12420, 12422, 12424, 12425, 12426,
      12427, 12428, 12429, 12431, 12434, 12435 }

\* Character classes of the patterns.
InClass(c, cls) ==
    CASE cls = "d"     -> IsDigit(c)                       \* \d
      [] cls = "s"     -> IsSpace(c)                       \* \s
      [] cls = "nds"   -> ~IsDigit(c) /\ ~IsSpace(c)       \* [^\d\s]
      [] cls = "hira"  -> HIRA_A <= c /\ c <= HIRA_N       \* [あ-ん]
      [] cls = "hlist" -> c \in hiragana_list              \* [あいう...ん]
      [] cls = "sep3"  -> c \in {HYPHEN, MINUS, CHOON}     \* [-−ー]
      [] cls = "sep2"  -> c \in {HYPHEN, MINUS}            \* [-−]

-----------------------------------------------------------------------------
(* re.search: leftmost match, greedy quantifiers with backtracking.        *)
(* A pattern is a sequence of items  class{lo,hi}; hi < 0 is "unbounded".  *)

Rep(cls, lo, hi) == [cls |-> cls, lo |-> lo, hi |-> hi]
One(cls)         == Rep(cls, 1, 1)
Star(cls)        == Rep(cls, 0, -1)
Opt(cls)         == Rep(cls, 0, 1)

Fail == << -1 >>

\* Length of the longest run of class cls starting at position pos, at most cap.
RECURSIVE Run(_, _, _, _)
Run(s, pos, cls, cap) ==
    IF cap = 0 \/ pos > Len(s) \/ ~InClass(s[pos], cls) THEN 0
    ELSE 1 + Run(s, pos + 1, cls, cap - 1)

\* Match items i.. of the pattern at position pos: the lengths the items
\* consumed, or Fail.  Each item first takes as much as it can, then gives
\* back one character at a time.
RECURSIVE MatchItems(_, _, _, _), TryLen(_, _, _, _, _)
MatchItems(items, s, i, pos) ==
    IF i > Len(items) THEN << >>
    ELSE LET it  == items[i]
             cap == IF it.hi < 0 THEN Len(s) ELSE it.hi
         IN  TryLen(items, s, i, pos, Run(s, pos, it.cls, cap))

TryLen(items, s, i, pos, k) ==
    IF k < items[i].lo THEN Fail
    ELSE LET rest == MatchItems(items, s, i + 1, pos + k)
         IN  IF rest # Fail THEN << k >> \o rest
             ELSE TryLen(items, s, i, pos, k - 1)

NoMatch == [ok |-> FALSE, start |-> 0, lens |-> << >>]

\* re.search(pattern, s): the match at the leftmost position where one exists.
Search(items, s) ==
    LET starts == { i \in 1..(Len(s) + 1) : MatchItems(items, s, 1, i) # Fail }
    IN  IF starts = {} THEN NoMatch
        ELSE LET first == CHOOSE i \in starts : \A j \in starts : i <= j
             IN  [ok |-> TRUE, start |-> first, lens |-> MatchItems(items, s, 1, first)]

RECURSIVE SumLens(_, _)
SumLens(lens, n) == IF n = 0 THEN 0 ELSE lens[n] + SumLens(lens, n - 1)

\* The substring matched by items first..last of match m (a capture group).
Group(m, s, first, last) ==
    SubSeq(s, m.start + SumLens(m.lens, first - 1),
              m.start + SumLens(m.lens, last) - 1)

-----------------------------------------------------------------------------
(* String helpers *)

\* str.replace(old, new) for single characters.
Replace(s, old, new) == [i \in 1..Len(s) |-> IF s[i] = old THEN new ELSE s[i]]

\* re.sub(r'\s+', ' ', s): every maximal whitespace run becomes one space.
RECURSIVE SubSpaces(_)
SubSpaces(s) ==
    IF s = << >> THEN << >>
    ELSE IF IsSpace(s[1])
         THEN << SPACE >> \o SubSpaces(SubSeq(s, 1 + Run(s, 1, "s", Len(s)), Len(s)))
         ELSE << s[1] >> \o SubSpaces(Tail(s))

\* str.strip()
RECURSIVE LStrip(_), RStrip(_)
LStrip(s) == IF s # << >> /\ IsSpace(s[1]) THEN LStrip(Tail(s)) ELSE s
RStrip(s) == IF s # << >> /\ IsSpace(s[Len(s)]) THEN RStrip(SubSeq(s, 1, Len(s) - 1)) ELSE s
Strip(s)  == RStrip(LStrip(s))

\* str.split(): the maximal runs of non-whitespace characters.
RECURSIVE Split(_)
Split(s) ==
    LET t == LStrip(s)
    IN  IF t = << >> THEN << >>
        ELSE LET w == CHOOSE k \in 1..Len(t) :
                     /\ \A j \in 1..k : ~IsSpace(t[j])
                     /\ (k = Len(t) \/ IsSpace(t[k + 1]))
             IN  << SubSeq(t, 1, w) >> \o Split(SubSeq(t, w + 1, Len(t)))

\* ' '.join(words)
RECURSIVE Join(_)
Join(words) ==
    IF words = << >> THEN << >>
    ELSE IF Len(words) = 1 THEN words[1]
         ELSE words[1] \o << SPACE >> \o Join(Tail(words))

\* needle in haystack
Contains(hay, needle) ==
    \E i \in 1..(Len(hay) - Len(needle) + 1) :
        SubSeq(hay, i, i + Len(needle) - 1) = needle

-----------------------------------------------------------------------------
(* Plate parsers *)

PlateKeys == {"region", "classification", "hiragana", "number", "full_text"}

\* Faulty variant of NewResult: the 'number' key is not initialised.
NewResultWithoutNumber(clean_text) ==
    [region |-> << >>, classification |-> << >>, hiragana |-> << >>,
     full_text |-> clean_text]

\* result = {'region': '', 'classification': '', 'hiragana': '', 'number': '',
\*           'full_text': clean_text}
NewResult(clean_text) ==
    [region |-> << >>, classification |-> << >>, hiragana |-> << >>,
     number |-> << >>, full_text |-> clean_text]

\* Faulty variant of RegionLoop: the loop has no break, the last entry found wins.
RegionLoopLast(regions, clean_text, i) ==
    LET found == { j \in i..Len(regions) : Contains(clean_text, regions[j]) }
    IN  IF found = {} THEN << >>
        ELSE regions[CHOOSE j \in found : \A k \in found : k <= j]

\* for region in regions: if region in clean_text: ...; break
\* The entries from index i on are visited in list order and the first one
\* contained in the text ends the loop.
RegionLoop(regions, clean_text, i) ==
    LET found == { j \in i..Len(regions) : Contains(clean_text, regions[j]) }
    IN  IF found = {} THEN << >>
        ELSE regions[CHOOSE j \in found : \A k \in found : j <= k]

\* Faulty variant of Hyphenate: the digits are returned as matched, without the '-'.
HyphenateNoDash(number) == number

\* f"{number[:2]}-{number[2:]}"
Hyphenate(number) ==
    SubSeq(number, 1, 2) \o << HYPHEN >> \o SubSeq(number, 3, Len(number))

(* ---- backend/app.py ---- *)

regions_app ==
    << <<21697, 24029>>, <<32244, 39340>>, <<36275, 31435>>, <<26441, 20006>>,
       <<19990, 30000, 35895>>, <<27743, 26481>>, <<33883, 39166>>, <<27743, 25144, 24029>>,
       <<26495, 27211>>, <<21488, 26481>>, <<22696, 30000>>, <<33618, 24029>>,
       <<21271>>, <<35914, 23798>>, <<20013, 37326>>, <<30446, 40658>>,
       <<22823, 30000>>, <<28207>>, <<21315, 20195, 30000>>, <<20013, 22830>>,
       <<25991, 20140>>, <<26032, 23487>>, <<28171, 35895>>, <<27178, 27996>>,
       <<24029, 23822>>, <<30456, 27169>>, <<28248, 21335>>, <<21315, 33865>>,
       <<32722, 24535, 37326>>, <<34966, 12465, 28006>>, <<37326, 30000>>, <<27700, 25144>>,
       <<22303, 28006>>, <<12388, 12367, 12400>>, <<23431, 37117, 23470>>, <<12392, 12385, 12366>>,
       <<37027, 38920>>, <<21069, 27211>>, <<39640, 23822>>, <<22823, 38442>>,
       <<12394, 12395, 12431>>, <<21644, 27849>>, <<22586>>, <<31070, 25144>>,
       <<23019, 36335>>, <<20140, 37117>>, <<22856, 33391>>, <<28363, 36032>>,
       <<21517, 21476, 23627>>, <<23614, 24373, 23567, 29287>>, <<19968, 23470>>, <<26149, 26085, 20117>>,
       <<35914, 30000>>, <<23713, 23822>>, <<35914, 27211>>, <<38745, 23713>>,
       <<27996, 26494>>, <<37329, 27810>>, <<23500, 23665>>, <<31119, 20117>>,
       <<38263, 37326>>, <<26494, 26412>>, <<35535, 35370>>, <<23665, 26792>>,
       <<30002, 24220>>, <<26413, 24140>>, <<20989, 39208>>, <<26093, 24029>>,
       <<37351, 36335>>, <<24111, 24195>>, <<20185, 21488>>, <<23470, 22478>>,
       <<31119, 23798>>, <<37089, 23665>>, <<12356, 12431, 12365>>, <<26032, 28511>>,
       <<38263, 23713>>, <<31119, 23713>>, <<21271, 20061, 24030>>, <<31569, 35914>>,
       <<20037, 30041, 31859>>, <<20304, 36032>>, <<38263, 23822>>, <<29066, 26412>>,
       <<22823, 20998>>, <<23470, 23822>>, <<40575, 20816, 23798>>, <<27798, 32260>>,
       <<24195, 23798>>, <<31119, 23665>>, <<23713, 23665>>, <<20489, 25975>>,
       <<23665, 21475>>, <<19979, 38306>>, <<40165, 21462>>, <<23798, 26681>>,
       <<26494, 27743>>, <<24499, 23798>>, <<39321, 24029>>, <<39640, 30693>>,
       <<24859, 23195>>, <<26494, 23665>> >>

clean_text_app(t) ==
    Strip(SubSpaces(Replace(Replace(t, LF, SPACE), CR, SPACE)))

\* r'([^\d\s]{1,5})\s*(\d{3})\s*([あ-ん])\s*(\d{1,2}[-−ー]\d{2})'
pattern1_app ==
    << Rep("nds", 1, 5), Star("s"), Rep("d", 3, 3), Star("s"), One("hira"),
       Star("s"), Rep("d", 1, 2), One("sep3"), Rep("d", 2, 2) >>

\* r'([^\d\s]{1,5})\s*(\d{3})\s*([あ-ん])\s*(\d{4})'
pattern2_app ==
    << Rep("nds", 1, 5), Star("s"), Rep("d", 3, 3), Star("s"), One("hira"),
       Star("s"), Rep("d", 4, 4) >>

\* number_patterns = [r'(\d{1,2}[-−ー]\d{2})', r'(\d{4})', r'(\d{3})']
number_patterns_app ==
    << << Rep("d", 1, 2), One("sep3"), Rep("d", 2, 2) >>,
       << Rep("d", 4, 4) >>,
       << Rep("d", 3, 3) >> >>

\* Tier 1: all four fields are the groups of the match.
Tier1App(res, clean_text, m) ==
    [res EXCEPT !.region         = Group(m, clean_text, 1, 1),
                !.classification = Group(m, clean_text, 3, 3),
                !.hiragana       = Group(m, clean_text, 5, 5),
                !.number         = Group(m, clean_text, 7, 9)]

\* Tier 2: as Tier 1, the number re-written as DD-DD.
Tier2App(res, clean_text, m) ==
    [res EXCEPT !.region         = Group(m, clean_text, 1, 1),
                !.classification = Group(m, clean_text, 3, 3),
                !.hiragana       = Group(m, clean_text, 5, 5),
                !.number         = Hyphenate(Group(m, clean_text, 7, 7))]

\* Tier 3a: the region catalog.
RegionSearchApp(res, clean_text) ==
    [res EXCEPT !.region = RegionLoop(regions_app, clean_text, 1)]

\* Tier 3b: re.search(r'([あ-ん])', clean_text)
HiraganaSearchApp(res, clean_text) ==
    LET m == Search(<< One("hira") >>, clean_text)
    IN  IF m.ok THEN [res EXCEPT !.hiragana = Group(m, clean_text, 1, 1)] ELSE res

\* Faulty variant of NumberLoopApp: the loop has no break, every sub-pattern that
\* matches sets its field.
RECURSIVE NumberLoopAppNoBreak(_, _, _)
NumberLoopAppNoBreak(res, clean_text, i) ==
    IF i > Len(number_patterns_app) THEN res
    ELSE LET p   == number_patterns_app[i]
             m   == Search(p, clean_text)
             num == Group(m, clean_text, 1, Len(p))
             upd == IF ~m.ok THEN res
                    ELSE IF i = 1 THEN [res EXCEPT !.number = num]
                    ELSE IF i = 2 /\ Len(num) = 4
                         THEN [res EXCEPT !.number = Hyphenate(num)]
                    ELSE IF i = 3 /\ Len(num) = 3
                         THEN [res EXCEPT !.classification = num]
                    ELSE res
         IN  NumberLoopAppNoBreak(upd, clean_text, i + 1)

\* Tier 3c: for i, pattern in enumerate(number_patterns): ... break
RECURSIVE NumberLoopApp(_, _, _)
NumberLoopApp(res, clean_text, i) ==
    IF i > Len(number_patterns_app) THEN res
    ELSE LET p == number_patterns_app[i]
             m == Search(p, clean_text)
         IN  IF m.ok
             THEN LET num == Group(m, clean_text, 1, Len(p))
                  IN  IF i = 1 THEN [res EXCEPT !.number = num]
                      ELSE IF i = 2 /\ Len(num) = 4
                           THEN [res EXCEPT !.number = Hyphenate(num)]
                      ELSE IF i = 3 /\ Len(num) = 3
                           THEN [res EXCEPT !.classification = num]
                      ELSE res
             ELSE NumberLoopApp(res, clean_text, i + 1)

Tier3App(res, clean_text) ==
    NumberLoopApp(HiraganaSearchApp(RegionSearchApp(res, clean_text), clean_text),
                  clean_text, 1)

\* parse_japanese_license_plate of backend/app.py
parse_japanese_license_plate_app(t) ==
    LET clean_text == clean_text_app(t)
        res        == NewResult(clean_text)
        m1         == Search(pattern1_app, clean_text)
        m2         == Search(pattern2_app, clean_text)
    IN  IF m1.ok THEN Tier1App(res, clean_text, m1)
        ELSE IF m2.ok THEN Tier2App(res, clean_text, m2)
        ELSE Tier3App(res, clean_text)

(* ---- api/ocr.py ---- *)

regions_ocr ==
    << <<21697, 24029>>, <<26032, 23487>>, <<32244, 39340>>, <<19990, 30000, 35895>>,
       <<26441, 20006>>, <<27743, 26481>>, <<36275, 31435>>, <<33883, 39166>>,
       <<27743, 25144, 24029>>, <<26495, 27211>>, <<21488, 26481>>, <<22696, 30000>>,
       <<33618, 24029>>, <<21271>>, <<35914, 23798>>, <<20013, 37326>>,
       <<30446, 40658>>, <<22823, 30000>>, <<28207>>, <<21315, 20195, 30000>>,
       <<20013, 22830>>, <<25991, 20140>>, <<28171, 35895>>, <<27178, 27996>>,
       <<24029, 23822>>, <<30456, 27169>>, <<28248, 21335>>, <<21517, 21476, 23627>>,
       <<22823, 38442>>, <<31070, 25144>>, <<20140, 37117>>, <<31119, 23713>>,
       <<26413, 24140>>, <<20185, 21488>>, <<24195, 23798>> >>

\* ' '.join(text.replace('\n', ' ').replace('\r', ' ').split())
clean_text_ocr(t) ==
    Join(Split(Replace(Replace(t, LF, SPACE), CR, SPACE)))

\* r'([^\d\s]{1,4})\s*(\d{3})\s*([あ-ん])\s*(\d{1,2}[-−]\d{2})'
pattern1_ocr ==
    << Rep("nds", 1, 4), Star("s"), Rep("d", 3, 3), Star("s"), One("hira"),
       Star("s"), Rep("d", 1, 2), One("sep2"), Rep("d", 2, 2) >>

\* r'([^\d\s]{1,4})\s*(\d{3})\s*([あ-ん])\s*(\d{4})'
pattern2_ocr ==
    << Rep("nds", 1, 4), Star("s"), Rep("d", 3, 3), Star("s"), One("hira"),
       Star("s"), Rep("d", 4, 4) >>

\* number_patterns = [r'(\d{1,2}[-−]\d{2})', r'(\d{4})', r'(\d{3})']
number_patterns_ocr ==
    << << Rep("d", 1, 2), One("sep2"), Rep("d", 2, 2) >>,
       << Rep("d", 4, 4) >>,
       << Rep("d", 3, 3) >> >>

Tier1Ocr(res, clean_text, m) ==
    [res EXCEPT !.region         = Group(m, clean_text, 1, 1),
                !.classification = Group(m, clean_text, 3, 3),
                !.hiragana       = Group(m, clean_text, 5, 5),
                !.number         = Group(m, clean_text, 7, 9)]

Tier2Ocr(res, clean_text, m) ==
    [res EXCEPT !.region         = Group(m, clean_text, 1, 1),
                !.classification = Group(m, clean_text, 3, 3),
                !.hiragana       = Group(m, clean_text, 5, 5),
                !.number         = Hyphenate(Group(m, clean_text, 7, 7))]

RegionSearchOcr(res, clean_text) ==
    [res EXCEPT !.region = RegionLoop(regions_ocr, clean_text, 1)]

\* re.search(f'([{hiragana_list}])', clean_text)
HiraganaSearchOcr(res, clean_text) ==
    LET m == Search(<< One("hlist") >>, clean_text)
    IN  IF m.ok THEN [res EXCEPT !.hiragana = Group(m, clean_text, 1, 1)] ELSE res

\* for pattern in number_patterns: ... the branch is chosen by the shape of
\* the matched string, not by the index of the pattern.
RECURSIVE NumberLoopOcr(_, _, _)
NumberLoopOcr(res, clean_text, i) ==
    IF i > Len(number_patterns_ocr) THEN res
    ELSE LET p == number_patterns_ocr[i]
             m == Search(p, clean_text)
         IN  IF m.ok
             THEN LET num == Group(m, clean_text, 1, Len(p))
                  IN  IF Len(num) = 4 /\ ~Contains(num, << HYPHEN >>)
                      THEN [res EXCEPT !.number = Hyphenate(num)]
                      ELSE IF Len(num) = 3
                           THEN [res EXCEPT !.classification = num]
                      ELSE [res EXCEPT !.number = num]
             ELSE NumberLoopOcr(res, clean_text, i + 1)

Tier3Ocr(res, clean_text) ==
    NumberLoopOcr(HiraganaSearchOcr(RegionSearchOcr(res, clean_text), clean_text),
                  clean_text, 1)

\* parse_japanese_license_plate of api/ocr.py
parse_japanese_license_plate_ocr(t) ==
    LET clean_text == clean_text_ocr(t)
        res        == NewResult(clean_text)
        m1         == Search(pattern1_ocr, clean_text)
        m2         == Search(pattern2_ocr, clean_text)
    IN  IF m1.ok THEN Tier1Ocr(res, clean_text, m1)
        ELSE IF m2.ok THEN Tier2Ocr(res, clean_text, m2)
        ELSE Tier3Ocr(res, clean_text)

(* ---- backend/simple_app.py ---- *)

regions_simple ==
    << <<21697, 24029>>, <<32244, 39340>>, <<27178, 27996>>, <<21517, 21476, 23627>>,
       <<22823, 38442>>, <<20140, 37117>>, <<31070, 25144>>, <<31119, 23713>> >>

clean_text_simple(t) ==
    Strip(SubSpaces(Replace(Replace(t, LF, SPACE), CR, SPACE)))

\* r'(\d{1,2}[-−ー]?\d{2})'
NumberPatternSimple == << Rep("d", 1, 2), Opt("sep3"), Rep("d", 2, 2) >>

\* r'(\d{3})'
ClassPatternSimple == << Rep("d", 3, 3) >>

RegionSearchSimple(res, clean_text) ==
    [res EXCEPT !.region = RegionLoop(regions_simple, clean_text, 1)]

NumberSearchSimple(res, clean_text) ==
    LET m == Search(NumberPatternSimple, clean_text)
    IN  IF m.ok THEN [res EXCEPT !.number = Group(m, clean_text, 1, 3)] ELSE res

HiraganaSearchSimple(res, clean_text) ==
    LET m == Search(<< One("hira") >>, clean_text)
    IN  IF m.ok THEN [res EXCEPT !.hiragana = Group(m, clean_text, 1, 1)] ELSE res

ClassSearchSimple(res, clean_text) ==
    LET m == Search(ClassPatternSimple, clean_text)
    IN  IF m.ok THEN [res EXCEPT !.classification = Group(m, clean_text, 1, 1)] ELSE res

\* parse_simple_plate of backend/simple_app.py
parse_simple_plate(t) ==
    LET clean_text == clean_text_simple(t)
    IN  ClassSearchSimple(
          HiraganaSearchSimple(
            NumberSearchSimple(
              RegionSearchSimple(NewResult(clean_text), clean_text),
              clean_text),
            clean_text),
          clean_text)

-----------------------------------------------------------------------------
(* Parser inputs: noise, region, classification, hiragana and serial parts *)
(* glued with or without whitespace, as an OCR engine may return them.     *)

MaxNoise == 3

RECURSIVE Repeat(_, _)
Repeat(s, k) == IF k = 0 THEN << >> ELSE s \o Repeat(s, k - 1)

NoisePart   == << 12494 >>                                      \* "ノ"
RegionParts == { << >>, << 21697, 24029 >>,                     \* "品川"
                 << 21271, 20061, 24030 >> }                    \* "北九州"
GapParts    == { << >>, << SPACE >>, << LF, SPACE >> }
ClassParts  == { << >>, << 53, 56, 48 >>, << 53, 56 >> }        \* "580", "58"
HiraParts   == { << >>, << 12354 >>, << 12364 >> }              \* "あ", "が"
SerialParts == { << >>,
                 << 49, 50, HYPHEN, 51, 52 >>,                  \* "12-34"
                 << 49, MINUS, 50, 51 >>,                       \* "1−23"
                 << 49, 50, MINUS, 51, 52 >>,                   \* "12−34"
                 << 49, 50, CHOON, 51, 52 >>,                   \* "12ー34"
                 << 49, 50, 51, 52 >> }                         \* "1234"
SuffixParts == { << >>, << SPACE, 21697, 24029 >>,              \* " 品川"
                 << SPACE, 53, 56, 48 >> }                      \* " 580"

Inputs ==
    { Repeat(NoisePart, k) \o r \o g \o c \o g \o h \o g \o n \o x :
        k \in 0..MaxNoise, r \in RegionParts, g \in GapParts, c \in ClassParts,
        h \in HiraParts, n \in SerialParts, x \in SuffixParts }

NoRequest  == [method |-> "none", json |-> "none", image |-> "none"]
NoResponse == [status |-> 0, body |-> [success |-> FALSE]]

\* The parts of the state a specification does not use stay at these values.
IdleParser  == text = << >> /\ parser = "none" /\ result = << >>
IdleNorm    == lines = << >> /\ extractor = "none" /\ final_text = << >>
IdleHandler == /\ variant = "none" /\ available = FALSE /\ pc = "idle"
               /\ request = NoRequest /\ raised = {} /\ ocr_result = << >>
               /\ detected_text = << >> /\ plate_info = << >>
               /\ response = NoResponse

Init ==
    /\ text \in Inputs
    /\ parser = "none"
    /\ result = << >>
    /\ IdleNorm
    /\ IdleHandler

ParseApp ==
    /\ parser = "none"
    /\ parser' = "app"
    /\ result' = parse_japanese_license_plate_app(text)
    /\ UNCHANGED << text, normVars, handlerVars >>

ParseOcr ==
    /\ parser = "none"
    /\ parser' = "ocr"
    /\ result' = parse_japanese_license_plate_ocr(text)
    /\ UNCHANGED << text, normVars, handlerVars >>

ParseSimple ==
    /\ parser = "none"
    /\ parser' = "simple"
    /\ result' = parse_simple_plate(text)
    /\ UNCHANGED << text, normVars, handlerVars >>

Next == ParseApp \/ ParseOcr \/ ParseSimple

Spec == Init /\ [][Next]_vars


-----------------------------------------------------------------------------
(* Properties of the parsers, checked under Spec *)

Parsed     == parser # "none"
PaddleCall == parser \in {"app", "ocr"}   \* a parse_japanese_license_plate call

\* The cleaned text, Tier 1 / Tier 2 patterns and catalog of the variant that parsed.
CleanOf(p, t) == IF p = "ocr" THEN clean_text_ocr(t) ELSE clean_text_app(t)
Pattern1Of(p) == IF p = "ocr" THEN pattern1_ocr ELSE pattern1_app
Pattern2Of(p) == IF p = "ocr" THEN pattern2_ocr ELSE pattern2_app
NumberPatternsOf(p) == IF p = "ocr" THEN number_patterns_ocr ELSE number_patterns_app
SepsOf(p)     == IF p = "ocr" THEN {HYPHEN, MINUS} ELSE {HYPHEN, MINUS, CHOON}
RegionsOf(p)  == IF p = "ocr" THEN regions_ocr
                 ELSE IF p = "simple" THEN regions_simple ELSE regions_app

Tier1Matches == Search(Pattern1Of(parser), CleanOf(parser, text)).ok
Tier2Matches == Search(Pattern2Of(parser), CleanOf(parser, text)).ok
ReachesTier3 == PaddleCall /\ ~Tier1Matches /\ ~Tier2Matches

AllDigits(s) == \A i \in 1..Len(s) : IsDigit(s[i])
IsString(s)  == DOMAIN s = 1..Len(s) /\ \A i \in 1..Len(s) : s[i] \in Nat

\* The catalog entries that occur in the text, by index.
CatalogHits(regions, t) == { i \in 1..Len(regions) : Contains(t, regions[i]) }

\* r is what a first-hit lookup of the catalog returns on t: an entry that
\* occurs in t with no entry before it in the list occurring in t, or the
\* empty string when none occurs.
IsFirstCatalogRegion(r, regions, t) ==
    \/ r = << >> /\ \A i \in 1..Len(regions) : ~Contains(t, regions[i])
    \/ \E i \in 1..Len(regions) :
          /\ r = regions[i]
          /\ Contains(t, r)
          /\ \A j \in 1..(i - 1) : ~Contains(t, regions[j])

\* Tier 1 as the claims describe it: 1-5 region characters, three digits, one
\* hiragana, 1-2 digits + one of the three separators + 2 digits.
ClaimedTier1 ==
    << Rep("nds", 1, 5), Star("s"), Rep("d", 3, 3), Star("s"), One("hira"),
       Star("s"), Rep("d", 1, 2), One("sep3"), Rep("d", 2, 2) >>

\* C1: Tier precedence -- whenever the Tier 1 pattern (1-5 region characters,
\* 3 digits, hiragana, 1-2 digits + separator + 2 digits) matches the cleaned
\* text, the four fields returned by parse_japanese_license_plate (app.py and
\* ocr.py) are exactly the groups of that match.
C1_TierPrecedence ==
    PaddleCall =>
        LET t == CleanOf(parser, text)
            m == Search(ClaimedTier1, t)
        IN  m.ok => /\ result.region         = Group(m, t, 1, 1)
                    /\ result.classification = Group(m, t, 3, 3)
                    /\ result.hiragana       = Group(m, t, 5, 5)
                    /\ result.number         = Group(m, t, 7, 9)

\* Tier precedence with each variant's own Tier 1 pattern (ocr.py: 1-4 region
\* characters, separators '-' and U+2212 only): the groups of the variant's
\* own match are returned untouched by Tier 2 and Tier 3.
OwnTier1Precedence ==
    (PaddleCall /\ Tier1Matches) =>
        LET t == CleanOf(parser, text)
            m == Search(Pattern1Of(parser), t)
        IN  /\ result.region         = Group(m, t, 1, 1)
            /\ result.classification = Group(m, t, 3, 3)
            /\ result.hiragana       = Group(m, t, 5, 5)
            /\ result.number         = Group(m, t, 7, 9)

\* C2: Total field coverage -- every record a parser returns has exactly the
\* five keys, every value is a string, full_text is the cleaned input, and
\* a field for which the text holds nothing to match is the empty string.
C2_TotalFieldCoverage ==
    Parsed =>
        LET t == CleanOf(parser, text)
        IN  /\ DOMAIN result = PlateKeys
            /\ \A k \in PlateKeys : IsString(result[k])
            /\ result.full_text = t
            /\ (\A i \in 1..Len(t) : ~IsDigit(t[i]))
                   => result.number = << >> /\ result.classification = << >>
            /\ (\A i \in 1..Len(t) : ~InClass(t[i], "hira"))
                   => result.hiragana = << >>
            /\ ((\A i \in 1..Len(t) : ~InClass(t[i], "hira"))
                    /\ CatalogHits(RegionsOf(parser), t) = {})
                   => result.region = << >>

\* Witness of C2: a whitespace-only text was parsed into the all-empty record.
C2_Witness ==
    /\ parser = "simple"
    /\ text # << >>
    /\ result = NewResult(<< >>)

\* C3: Separator equivalence -- for a text <region> <3 digits> <hiragana>
\* <DD><sep><DD> with sep any of '-', U+2212, U+30FC, both
\* parse_japanese_license_plate variants fill the four fields from the text
\* and number is the serial with the separator as it appeared.
C3_SeparatorEquivalence ==
    PaddleCall =>
        \A n \in 1..4 :
            ( /\ Len(text) = n + 12
              /\ \A i \in 1..n : InClass(text[i], "nds")
              /\ text[n + 1] = SPACE /\ text[n + 5] = SPACE /\ text[n + 7] = SPACE
              /\ AllDigits(SubSeq(text, n + 2, n + 4))
              /\ InClass(text[n + 6], "hira")
              /\ AllDigits(SubSeq(text, n + 8, n + 9))
              /\ text[n + 10] \in {HYPHEN, MINUS, CHOON}
              /\ AllDigits(SubSeq(text, n + 11, n + 12)) )
            => /\ result.region         = SubSeq(text, 1, n)
               /\ result.classification = SubSeq(text, n + 2, n + 4)
               /\ result.hiragana       = << text[n + 6] >>
               /\ result.number         = SubSeq(text, n + 8, n + 12)

\* C4: 4-digit synthesis -- when Tier 1 matches nowhere and Tier 2 matches,
\* region, classification and hiragana are the Tier 2 groups and number is
\* the first two serial digits, '-', the last two (five characters); nothing
\* of Tier 3 (catalog region, numeric sub-patterns) shows in the result.
C4_FourDigitSynthesis ==
    (PaddleCall /\ ~Tier1Matches /\ Tier2Matches) =>
        LET t == CleanOf(parser, text)
            m == Search(Pattern2Of(parser), t)
            d == Group(m, t, 7, 7)
        IN  /\ result.region         = Group(m, t, 1, 1)
            /\ result.classification = Group(m, t, 3, 3)
            /\ result.hiragana       = Group(m, t, 5, 5)
            /\ Len(result.number) = 5
            /\ result.number = << d[1], d[2], HYPHEN, d[3], d[4] >>

\* Witness of C4: Tier 2 produced the record, and the region it captured is
\* not the one the Tier 3 catalog lookup would have returned.
C4_Witness ==
    /\ PaddleCall /\ ~Tier1Matches /\ Tier2Matches
    /\ result.number = << 49, 50, HYPHEN, 51, 52 >>
    /\ CatalogHits(RegionsOf(parser), CleanOf(parser, text)) # {}
    /\ ~IsFirstCatalogRegion(result.region, RegionsOf(parser), CleanOf(parser, text))

\* A separated serial: 1-2 digits, sep, 2 digits.
IsSeparatedSerial(s, seps) ==
    /\ Len(s) \in {4, 5}
    /\ AllDigits(SubSeq(s, 1, Len(s) - 3))
    /\ s[Len(s) - 2] \in seps
    /\ AllDigits(SubSeq(s, Len(s) - 1, Len(s)))

\* C5: number shape -- for every parser and every tier, number is empty or
\* exactly DD-DD (two digits, ASCII hyphen, two digits).
C5_NumberIsDDHyphenDD ==
    Parsed =>
        \/ result.number = << >>
        \/ /\ Len(result.number) = 5
           /\ IsSeparatedSerial(result.number, {HYPHEN})

\* C5 read with the Tier 1 rule (1-2 leading digits, separator kept as
\* captured): number is empty or a separated serial.  parse_simple_plate and
\* Tier 3 of ocr.py break this reading as well.
SeparatedSerialOrEmpty ==
    Parsed =>
        \/ result.number = << >>
        \/ IsSeparatedSerial(result.number, {HYPHEN, MINUS, CHOON})

\* app.py alone keeps the separated-serial shape.
AppSeparatedSerialOrEmpty ==
    parser = "app" =>
        \/ result.number = << >>
        \/ IsSeparatedSerial(result.number, {HYPHEN, MINUS, CHOON})

\* Digit runs and separated serials, read off the text position by position.
DigitWindowAt(t, i, n) == i + n - 1 <= Len(t) /\ AllDigits(SubSeq(t, i, i + n - 1))
HasDigitWindow(t, n)   == \E i \in 1..Len(t) : DigitWindowAt(t, i, n)
FirstDigitWindow(t, n) ==
    LET i == CHOOSE k \in 1..Len(t) :
                 DigitWindowAt(t, k, n) /\ \A j \in 1..(k - 1) : ~DigitWindowAt(t, j, n)
    IN  SubSeq(t, i, i + n - 1)
HasSeparatedSerial(t, seps) ==
    \E i \in 1..Len(t) : \E n \in {4, 5} :
        i + n - 1 <= Len(t) /\ IsSeparatedSerial(SubSeq(t, i, i + n - 1), seps)

\* C6: Tier 3 single numeric sub-pattern -- in a parse that reaches Tier 3
\* the sub-patterns (i) separated serial, (ii) four digits, (iii) three
\* digits are tried in that order and only the first that matches sets a
\* field: at most one of number and classification is non-empty, and a
\* 4-digit run wins over a 3-digit run (number from the 4 digits,
\* classification empty).
C6_SingleNumericSubPattern ==
    ReachesTier3 =>
        LET t == CleanOf(parser, text)
            i   == HasSeparatedSerial(t, SepsOf(parser))
            ii  == HasDigitWindow(t, 4)
            iii == HasDigitWindow(t, 3)
        IN  /\ result.number = << >> \/ result.classification = << >>
            /\ i => result.number # << >> /\ result.classification = << >>
            /\ (~i /\ ii) =>
                   /\ result.number = Hyphenate(FirstDigitWindow(t, 4))
                   /\ result.classification = << >>
            /\ (~i /\ ~ii /\ iii) =>
                   /\ result.classification = FirstDigitWindow(t, 3)
                   /\ result.number = << >>
            /\ (~i /\ ~ii /\ ~iii) =>
                   result.number = << >> /\ result.classification = << >>

\* Witness of C6: "580 1234" reached Tier 3; the 4-digit run set number and
\* the separate 3-digit run set nothing.
C6_Witness ==
    /\ ReachesTier3
    /\ CleanOf(parser, text) = << 53, 56, 48, SPACE, 49, 50, 51, 52 >>
    /\ result.number = << 49, 50, HYPHEN, 51, 52 >>
    /\ result.classification = << >>

\* C7: Classification-only 3-digit fallback -- a text whose only digits are
\* one run of exactly three, with no hiragana and no catalog region, gives
\* classification = those digits and number, region, hiragana empty, in
\* each of the three parsers.
C7_ClassificationOnly ==
    Parsed =>
        LET t      == CleanOf(parser, text)
            digits == { i \in 1..Len(t) : IsDigit(t[i]) }
        IN  ( /\ \E i \in 1..Len(t) : digits = {i, i + 1, i + 2}
              /\ \A i \in 1..Len(t) : ~InClass(t[i], "hira")
              /\ CatalogHits(RegionsOf(parser), t) = {} )
            => /\ result.classification = FirstDigitWindow(t, 3)
               /\ result.number   = << >>
               /\ result.region   = << >>
               /\ result.hiragana = << >>

\* C8: Tier 3 region lookup -- in a parse that reaches Tier 3, region is the
\* catalog entry of least index that is a substring of the cleaned text, and
\* is empty exactly when no entry is.
C8_RegionLookup ==
    ReachesTier3 =>
        LET t == CleanOf(parser, text)
        IN  /\ IsFirstCatalogRegion(result.region, RegionsOf(parser), t)
            /\ (result.region = << >>) <=> (CatalogHits(RegionsOf(parser), t) = {})

\* Witness of C8: the text holds "北九州", a catalog entry of app.py, and the
\* earlier, shorter entry "北" is what Tier 3 returned.
C8_Witness ==
    /\ parser = "app"
    /\ ReachesTier3
    /\ Contains(CleanOf(parser, text), << 21271, 20061, 24030 >>)
    /\ ~Contains(CleanOf(parser, text), << 21697, 24029 >>)
    /\ result.region = << 21271 >>

-----------------------------------------------------------------------------
(* OCR result normalizer: extract_text_from_paddle_result.                 *)
(* A line is <<text, confidence>>; a confidence is a whole number of       *)
(* hundredths (0.3 is 30).                                                 *)

ThresholdApp == 30     \* if confidence > 0.3
ThresholdOcr == 50     \* if confidence > 0.5

LineText(l) == l[1]
LineConf(l) == l[2]

\* str < str: code point by code point, a proper prefix is smaller.
TextLess(a, b) ==
    \E i \in 1..(Len(b)) :
        /\ \A j \in 1..(i - 1) : j <= Len(a) /\ a[j] = b[j]
        /\ i - 1 <= Len(a)
        /\ (i > Len(a) \/ a[i] < b[i])

\* (confidence, text) < (confidence, text): Python's tuple order.
PairLess(a, b) ==
    \/ LineConf(a) < LineConf(b)
    \/ LineConf(a) = LineConf(b) /\ TextLess(LineText(a), LineText(b))

\* sorted(zip(confidences, texts), reverse=True): descending by the pair;
\* equal pairs keep their order.
RECURSIVE InsertDesc(_, _)
InsertDesc(sorted, l) ==
    IF sorted = << >> THEN << l >>
    ELSE IF PairLess(Head(sorted), l) THEN << l >> \o sorted
         ELSE << Head(sorted) >> \o InsertDesc(Tail(sorted), l)

RECURSIVE SortedDesc(_)
SortedDesc(ls) ==
    IF ls = << >> THEN << >>
    ELSE InsertDesc(SortedDesc(SubSeq(ls, 1, Len(ls) - 1)), ls[Len(ls)])

Texts(ls) == [i \in 1..Len(ls) |-> LineText(ls[i])]

\* for line in result[0]: ... if confidence > threshold: texts.append(text)
Accepted(ls, threshold) ==
    LET Keep(l) == LineConf(l) > threshold
    IN  SelectSeq(ls, Keep)

\* extract_text_from_paddle_result of backend/app.py
extract_text_from_paddle_result_app(ls) ==
    IF ls = << >> THEN << >>
    ELSE Join(Texts(SortedDesc(Accepted(ls, ThresholdApp))))

\* extract_text_from_paddle_result of api/ocr.py: no sort
extract_text_from_paddle_result_ocr(ls) ==
    IF ls = << >> THEN << >>
    ELSE Join(Texts(Accepted(ls, ThresholdOcr)))

(* Normalizer inputs *)

MaxLines == 3

LineTexts == { << 21697, 24029 >>,                    \* "品川"
               << 53, 56, 48, LF, 12354 >>,           \* "580\nあ"
               << SPACE, 49, 50, HYPHEN, 51, 52 >> }  \* " 12-34"
LineConfs == { 30, 50, 60, 90 }

RECURSIVE SeqsUpTo(_, _)
SeqsUpTo(S, n) ==
    IF n = 0 THEN { << >> }
    ELSE LET shorter == SeqsUpTo(S, n - 1)
         IN  shorter \cup { Append(s, x) : s \in { q \in shorter : Len(q) = n - 1 }, x \in S }

InitNorm ==
    /\ lines \in SeqsUpTo(LineTexts \X LineConfs, MaxLines)
    /\ extractor = "none"
    /\ final_text = << >>
    /\ IdleParser
    /\ IdleHandler

ExtractApp ==
    /\ extractor = "none"
    /\ extractor' = "app"
    /\ final_text' = extract_text_from_paddle_result_app(lines)
    /\ UNCHANGED << lines, parserVars, handlerVars >>

ExtractOcr ==
    /\ extractor = "none"
    /\ extractor' = "ocr"
    /\ final_text' = extract_text_from_paddle_result_ocr(lines)
    /\ UNCHANGED << lines, parserVars, handlerVars >>

NextNorm == ExtractApp \/ ExtractOcr

SpecNorm == InitNorm /\ [][NextNorm]_vars

(* Properties of the normalizer, checked under SpecNorm *)

\* A stable sort by descending confidence alone: a line goes behind every
\* line of equal or higher confidence already placed.
RECURSIVE InsertStable(_, _)
InsertStable(sorted, l) ==
    IF sorted = << >> THEN << l >>
    ELSE IF LineConf(Head(sorted)) < LineConf(l) THEN << l >> \o sorted
         ELSE << Head(sorted) >> \o InsertStable(Tail(sorted), l)

RECURSIVE StableByConfidence(_)
StableByConfidence(ls) ==
    IF ls = << >> THEN << >>
    ELSE InsertStable(StableByConfidence(SubSeq(ls, 1, Len(ls) - 1)), ls[Len(ls)])

ThresholdOf(e) == IF e = "ocr" THEN ThresholdOcr ELSE ThresholdApp

\* C9: Normalizer ordering -- the returned text is the texts of the lines
\* above the threshold, joined in order of descending confidence, lines of
\* equal confidence in their original relative order.
C9_NormalizerOrdering ==
    extractor # "none" =>
        final_text = Join(Texts(StableByConfidence(Accepted(lines, ThresholdOf(extractor)))))

\* The whitespace form of a text: no line break, no whitespace character
\* other than a single space between two non-space characters, nothing at
\* either end.
IsNormalizedText(t) ==
    /\ \A i \in 1..Len(t) : IsSpace(t[i]) => t[i] = SPACE
    /\ \A i \in 1..(Len(t) - 1) : ~(t[i] = SPACE /\ t[i + 1] = SPACE)
    /\ t # << >> => (t[1] # SPACE /\ t[Len(t)] # SPACE)

\* C11: NormalizedText invariant -- the text returned by
\* extract_text_from_paddle_result contains no '\n' or '\r', has every run
\* of whitespace collapsed to a single space, has no leading or trailing
\* whitespace, and is the empty string when no line survives the threshold.
C11_NormalizedText ==
    extractor # "none" =>
        /\ LF \notin { final_text[i] : i \in 1..Len(final_text) }
        /\ CR \notin { final_text[i] : i \in 1..Len(final_text) }
        /\ IsNormalizedText(final_text)
        /\ (Accepted(lines, ThresholdOf(extractor)) = << >> => final_text = << >>)

\* The part of C11 that the code does keep: with no surviving line the
\* returned text is empty.
EmptyWhenNoLineSurvives ==
    (extractor # "none" /\ Accepted(lines, ThresholdOf(extractor)) = << >>)
        => final_text = << >>

-----------------------------------------------------------------------------
(* Request handler of /api/ocr (POST, OPTIONS): license_plate_ocr (app.py,            *)
(* simple_app.py) and ocr_endpoint (ocr.py), one action per pipeline step. *)

Variants == {"app", "ocr", "simple"}

\* detected_text = "品川 500 あ 12-34" when PaddleOCR is missing (ocr.py)
MockText ==
    << 21697, 24029, SPACE, 53, 48, 48, SPACE, 12354, SPACE, 49, 50, HYPHEN, 51, 52 >>

\* What the OCR engine may return: PaddleOCR lines, or Tesseract's string.
PaddleResults ==
    { << >>,
      << << << 21697, 24029, SPACE, 53, 56, 48 >>, 90 >>,        \* ("品川 580", 0.9)
         << << 12354, SPACE, 49, 50, 51, 52 >>, 60 >> >>,        \* ("あ 1234", 0.6)
      << << << 53, 56, 48 >>, 40 >> >> }                         \* ("580", 0.4)
TesseractResults ==
    { << >>,
      << 21697, 24029, 53, 56, 48, 12354, 49, 50, HYPHEN, 51, 52, LF >>,  \* "品川580あ12-34\n"
      << 53, 56, 48, LF >> }                                              \* "580\n"

\* jsonify({...}), status
Success(detected, info, confidence) ==
    [status |-> 200,
     body   |-> [success |-> TRUE, detected_text |-> detected, plate_info |-> info,
                 confidence |-> confidence]]
\* response = jsonify({'status': 'ok'}); response.headers.add(...) three times
Preflight ==
    [status  |-> 200,
     body    |-> [status |-> "ok"],
     headers |-> [allow_origin  |-> "*",
                  allow_methods |-> "POST, OPTIONS",
                  allow_headers |-> "Content-Type"]]
NoImage ==
    [status |-> 400, body |-> [success |-> FALSE, error |-> "no image data"]]
Failure(message) ==
    [status |-> 500,
     body   |-> [success |-> FALSE, error |-> message, detected_text |-> << >>,
                 confidence |-> 0]]

InitHandler ==
    /\ variant \in Variants
    /\ available \in BOOLEAN
    /\ pc = "idle"
    /\ request = NoRequest
    /\ raised = {}
    /\ ocr_result = << >>
    /\ detected_text = << >>
    /\ plate_info = << >>
    /\ response = NoResponse
    /\ IdleParser
    /\ IdleNorm

serverVars == << variant, available >>
localVars  == << ocr_result, detected_text, plate_info >>

\* The requests the route accepts.  json is what request.get_json() does
\* with the body: "object" returns a dict (with or without an 'image' key),
\* "empty" returns a falsy value (None, {}, 0), "scalar" returns a truthy
\* value that is no container (5, true), "malformed" makes it raise.
Requests ==
    { [method |-> m, json |-> "object", image |-> img] :
          m \in {"POST", "OPTIONS"}, img \in {"missing", "base64", "data_uri"} }
    \cup { [method |-> m, json |-> j, image |-> "missing"] :
          m \in {"POST", "OPTIONS"}, j \in {"empty", "scalar", "malformed"} }

\* A request arrives.  if request.method == 'OPTIONS': return response
\* (before the try, the body is not read).
Receive ==
    /\ pc = "idle"
    /\ \E r \in Requests :
          /\ request' = r
          /\ IF r.method = "OPTIONS"
             THEN response' = Preflight /\ pc' = "done"
             ELSE response' = NoResponse /\ pc' = "get_json"
    /\ raised' = {}
    /\ ocr_result' = << >> /\ detected_text' = << >> /\ plate_info' = << >>
    /\ UNCHANGED << serverVars, parserVars, normVars >>

\* data = request.get_json(); if not data or 'image' not in data: return ..., 400
\* Both lines are inside the try: get_json() raises on a malformed body,
\* 'image' not in data raises TypeError on a truthy scalar.
GetJson ==
    /\ pc = "get_json"
    /\ IF request.json \in {"malformed", "scalar"}
       THEN raised' = raised \cup {"get_json"} /\ response' = response /\ pc' = "except"
       ELSE IF request.json = "empty" \/ request.image = "missing"
       THEN raised' = raised /\ response' = NoImage /\ pc' = "done"
       ELSE raised' = raised /\ response' = response /\ pc' = "decode"
    /\ UNCHANGED << serverVars, request, localVars, parserVars, normVars >>

\* image_data.split(',')[1]; base64.b64decode(image_data)
Decode ==
    /\ pc = "decode"
    /\ \E ok \in BOOLEAN :
          IF ok THEN raised' = raised /\ pc' = "open"
          ELSE raised' = raised \cup {"decode"} /\ pc' = "except"
    /\ UNCHANGED << serverVars, request, localVars, response, parserVars, normVars >>

\* Image.open(io.BytesIO(image_bytes))
Open ==
    /\ pc = "open"
    /\ \E ok \in BOOLEAN :
          IF ok THEN raised' = raised
                     /\ pc' = IF variant = "simple" THEN "preprocess" ELSE "check_engine"
          ELSE raised' = raised \cup {"open"} /\ pc' = "except"
    /\ UNCHANGED << serverVars, request, localVars, response, parserVars, normVars >>

\* app.py: if not PADDLE_AVAILABLE: return ..., 500
\* ocr.py: if PADDLE_AVAILABLE: ... else: detected_text = "品川 500 あ 12-34"
CheckEngine ==
    /\ pc = "check_engine"
    /\ IF available
       THEN /\ pc' = "preprocess"
            /\ UNCHANGED << raised, detected_text, response >>
       ELSE /\ raised' = raised \cup {"engine_unavailable"}
            /\ IF variant = "app"
               THEN /\ response' = Failure("PaddleOCR unavailable")
                    /\ pc' = "done"
                    /\ UNCHANGED detected_text
               ELSE /\ detected_text' = MockText
                    /\ pc' = "parse"
                    /\ UNCHANGED response
    /\ UNCHANGED << serverVars, request, ocr_result, plate_info, parserVars, normVars >>

\* The pre-processing step.  "cv" is an error raised by an OpenCV call,
\* "array" one raised by np.array(image) / image.convert('L').
\*   app.py    preprocess_for_license_plate: all in try, except returns
\*             np.array(image), which raises again if np.array was the error
\*   ocr.py    preprocess_license_plate: np.array outside the try, OpenCV
\*             calls inside try / bare except returning img_array
\*   simple    convert, np.array, cv2.threshold, cv2.medianBlur inline in
\*             the handler's try (the cv2 calls only if TESSERACT_AVAILABLE)
Preprocess ==
    /\ pc = "preprocess"
    /\ \E outcome \in {"ok", "cv", "array"} :
          /\ (outcome = "cv" /\ variant = "simple") => available
          /\ raised' = IF outcome = "ok" THEN raised ELSE raised \cup {"preprocess"}
          /\ pc' = IF outcome = "ok" THEN "ocr"
                   ELSE IF outcome = "cv" /\ variant # "simple" THEN "ocr"
                   ELSE "except"
    /\ UNCHANGED << serverVars, request, localVars, response, parserVars, normVars >>

\* app.py / ocr.py: ocr.ocr(processed_image, cls=True)
\* simple_app.py:   try: pytesseract.image_to_string(...).strip()
\*                  except Exception: detected_text = ""
RunOcr ==
    /\ pc = "ocr"
    /\ \/ /\ variant # "simple"
          /\ \E r \in PaddleResults : ocr_result' = r
          /\ pc' = "extract"
          /\ UNCHANGED << raised, detected_text >>
       \/ /\ variant = "simple"
          /\ \E r \in TesseractResults :
                ocr_result' = r /\ detected_text' = Strip(r)
          /\ pc' = "parse"
          /\ UNCHANGED raised
       \/ /\ raised' = raised \cup {"ocr"}
          /\ IF variant = "simple"
             THEN detected_text' = << >> /\ pc' = "parse"
             ELSE detected_text' = detected_text /\ pc' = "except"
          /\ UNCHANGED ocr_result
    /\ UNCHANGED << serverVars, request, plate_info, response, parserVars, normVars >>

\* detected_text = extract_text_from_paddle_result(ocr_result)
Extract ==
    /\ pc = "extract"
    /\ detected_text' = IF variant = "app" THEN extract_text_from_paddle_result_app(ocr_result)
                        ELSE extract_text_from_paddle_result_ocr(ocr_result)
    /\ pc' = "parse"
    /\ UNCHANGED << serverVars, request, raised, ocr_result, plate_info, response,
                    parserVars, normVars >>

\* plate_info = parse_japanese_license_plate(detected_text) / parse_simple_plate
Parse ==
    /\ pc = "parse"
    /\ plate_info' = IF variant = "app" THEN parse_japanese_license_plate_app(detected_text)
                     ELSE IF variant = "ocr" THEN parse_japanese_license_plate_ocr(detected_text)
                     ELSE parse_simple_plate(detected_text)
    /\ pc' = "respond"
    /\ UNCHANGED << serverVars, request, raised, ocr_result, detected_text, response,
                    parserVars, normVars >>

\* return jsonify({'success': True, ..., 'confidence': ...})
Respond ==
    /\ pc = "respond"
    /\ response' = Success(detected_text, plate_info,
                           IF variant = "simple" THEN 75
                           ELSE IF variant = "ocr" /\ ~available THEN 85 ELSE 95)
    /\ pc' = "done"
    /\ UNCHANGED << serverVars, request, raised, localVars, parserVars, normVars >>

\* except Exception as e: return jsonify({'success': False, ...}), 500
Except ==
    /\ pc = "except"
    /\ response' = Failure("exception")
    /\ pc' = "done"
    /\ UNCHANGED << serverVars, request, raised, localVars, parserVars, normVars >>

NextHandler ==
    \/ Receive \/ GetJson \/ Decode \/ Open \/ CheckEngine \/ Preprocess
    \/ RunOcr \/ Extract \/ Parse \/ Respond \/ Except

SpecHandler == InitHandler /\ [][NextHandler]_vars

(* Properties of the handler, checked under SpecHandler *)

\* C10: Request-handler failure translation -- a POST carrying image data
\* in which a step of the image/OCR pipeline failed is answered with a
\* non-2xx status and a body with success false, an error message, empty
\* detected_text and confidence 0.
C10_FailureTranslation ==
    (pc = "done" /\ request.method = "POST" /\ request.image # "missing" /\ raised # {}) =>
        /\ response.status \notin 200..299
        /\ response.body.success = FALSE
        /\ "error" \in DOMAIN response.body
        /\ "detected_text" \in DOMAIN response.body
        /\ response.body.detected_text = << >>
        /\ response.body.confidence = 0

====
